---- MODULE Spec2Model ----
(***************************************************************************)
(* Model of the highscore helpers of the Snake game (api-helpers.js).      *)
(*                                                                         *)
(* The repository holds three revisions of the helper script:              *)
(*   "v1"  src/api-helpers.js lines   1-217  normalized-substring filter,  *)
(*                                           no IP lookup                  *)
(*   "v2"  src/unnamed/part_000              word-boundary filter,         *)
(*                                           no IP lookup                  *)
(*   "v3"  src/api-helpers.js lines 219-529  word-boundary filter,         *)
(*                                           IP lookup before the write    *)
(* The variable version selects the revision that is loaded in the page.   *)
(*                                                                         *)
(* Strings are sequences of one-character strings, so that trim,           *)
(* toLowerCase, split, includes and the regular expression are computed.   *)
(***************************************************************************)
EXTENDS Integers, Sequences, FiniteSets, TLC

VARIABLES
    version,          \* revision of the script that runs
    SUPABASE_CONFIG,  \* the global that config.js defines (or not)
    SUPABASE_URL,
    SUPABASE_KEY,
    timer,            \* the setTimeout(..., 100) of the start-up IIFE
    PROFANITY_WORDS,
    profanityLoaded,
    wordFetches,      \* number of fetch('profanity.txt') issued so far
    loads,            \* the loadProfanityWords calls
    subs,             \* the submitScore calls
    tops,             \* the getTopScores calls made by the page
    probe             \* a containsProfanity call made by the page

vars == <<version, SUPABASE_CONFIG, SUPABASE_URL, SUPABASE_KEY, timer,
          PROFANITY_WORDS, profanityLoaded, wordFetches, loads, subs, tops,
          probe>>

(***************************************************************************)
(* Bounds of the model.                                                    *)
(***************************************************************************)
MaxCandLen == 4
MaxLoads == 2
MaxSubmits == 1
MaxTops == 1

(***************************************************************************)
(* Characters and strings.                                                 *)
(***************************************************************************)
Versions == {"v1", "v2", "v3"}

AsciiLower == <<"a", "b", "c", "d", "e", "f", "g", "h", "i", "j", "k", "l", "m",
                "n", "o", "p", "q", "r", "s", "t", "u", "v", "w", "x", "y", "z">>
AsciiUpper == <<"A", "B", "C", "D", "E", "F", "G", "H", "I", "J", "K", "L", "M",
                "N", "O", "P", "Q", "R", "S", "T", "U", "V", "W", "X", "Y", "Z">>
Digits == {"0", "1", "2", "3", "4", "5", "6", "7", "8", "9"}

Range(f) == {f[i] : i \in DOMAIN f}

\* String.prototype.toLowerCase: the ASCII capitals map to their small letter;
\* every other character of the model (small letters, digits, punctuation,
\* white space, the small non-ASCII letter) is its own lower case.
ToLowerChar(c) ==
    IF c \in Range(AsciiUpper)
    THEN AsciiLower[CHOOSE i \in DOMAIN AsciiUpper : AsciiUpper[i] = c]
    ELSE c

toLowerCase(s) == [i \in 1..Len(s) |-> ToLowerChar(s[i])]

\* White space of String.prototype.trim and of the regular expression \s.
WhiteSpace == {" ", "\t", "\n", "\r"}

trim(s) ==
    LET keep == {i \in 1..Len(s) : s[i] \notin WhiteSpace}
    IN  IF keep = {} THEN << >>
        ELSE LET lo == CHOOSE i \in keep : \A j \in keep : i <= j
                 hi == CHOOSE i \in keep : \A j \in keep : j <= i
             IN  SubSeq(s, lo, hi)

\* String.prototype.includes.
includes(s, w) ==
    \E i \in 0..(Len(s) - Len(w)) : SubSeq(s, i + 1, i + Len(w)) = w

\* String.prototype.split('\n').
RECURSIVE split(_)
split(text) ==
    IF \A i \in 1..Len(text) : text[i] # "\n" THEN <<text>>
    ELSE LET k == CHOOSE i \in 1..Len(text) :
                      text[i] = "\n" /\ \A j \in 1..(i - 1) : text[j] # "\n"
         IN  <<SubSeq(text, 1, k - 1)>> \o split(SubSeq(text, k + 1, Len(text)))

\* The wordlist that loadProfanityWords computes from the text of the file.
IsNonEmptyLine(line) == Len(line) > 0

ParseWordlist(text) ==
    LET lines == split(text)
        mapped == [i \in 1..Len(lines) |-> toLowerCase(trim(lines[i]))]
    IN  SelectSeq(mapped, IsNonEmptyLine)

(***************************************************************************)
(* The profanity filter.                                                   *)
(***************************************************************************)
\* The characters of the class [.*+?^${}()|[\]\\] that containsProfanity escapes.
RegexEscaped == {".", "*", "+", "?", "^", "$", "{", "}", "(", ")", "|", "[", "]", "\\"}

\* cleanWord.replace(/[.*+?^${}()|[\]\\]/g, '\\$&')
RECURSIVE escapeRegex(_)
escapeRegex(w) ==
    IF w = << >> THEN << >>
    ELSE (IF Head(w) \in RegexEscaped THEN <<"\\", Head(w)>> ELSE <<Head(w)>>)
         \o escapeRegex(Tail(w))

\* new RegExp(source, 'i'), for the sources the filter builds: \b is the word
\* boundary assertion, a backslash before any other character makes it a
\* literal, an unescaped dot matches any character but a line terminator,
\* every other character is a literal.
RECURSIVE RegExpAtoms(_)
RegExpAtoms(src) ==
    IF src = << >> THEN << >>
    ELSE IF Head(src) = "\\" /\ Len(src) >= 2
         THEN (IF src[2] = "b"
               THEN <<[kind |-> "boundary", ch |-> ""]>>
               ELSE <<[kind |-> "literal", ch |-> src[2]]>>)
              \o RegExpAtoms(SubSeq(src, 3, Len(src)))
         ELSE (IF Head(src) = "."
               THEN <<[kind |-> "any", ch |-> ""]>>
               ELSE <<[kind |-> "literal", ch |-> Head(src)]>>)
              \o RegExpAtoms(Tail(src))

\* \w of a regular expression without the u flag: [A-Za-z0-9_].
IsWordChar(c) == c \in Range(AsciiLower) \cup Range(AsciiUpper) \cup Digits \cup {"_"}

\* \b at position pos (between s[pos-1] and s[pos]).
IsWordBoundary(s, pos) ==
    LET before == pos > 1 /\ IsWordChar(s[pos - 1])
        after == pos <= Len(s) /\ IsWordChar(s[pos])
    IN  before # after

RECURSIVE MatchAt(_, _, _)
MatchAt(atoms, s, pos) ==
    IF atoms = << >> THEN TRUE
    ELSE LET a == Head(atoms)
         IN  CASE a.kind = "boundary" ->
                    IsWordBoundary(s, pos) /\ MatchAt(Tail(atoms), s, pos)
               [] a.kind = "any" ->
                    /\ pos <= Len(s)
                    /\ s[pos] \notin {"\n", "\r"}
                    /\ MatchAt(Tail(atoms), s, pos + 1)
               [] OTHER ->
                    /\ pos <= Len(s)
                    /\ ToLowerChar(s[pos]) = ToLowerChar(a.ch)
                    /\ MatchAt(Tail(atoms), s, pos + 1)

\* RegExp.prototype.test
RegExpTest(src, s) ==
    LET atoms == RegExpAtoms(src)
    IN  \E pos \in 1..(Len(s) + 1) : MatchAt(atoms, s, pos)

\* The minimum length of a word that is matched as a whole word.
MinWordLen == 3

\* WholeWordMatch without the `cleanWord.length < 3` skip.
WholeWordMatchAnyLength(word, lowerUsername) ==
    LET cleanWord == trim(toLowerCase(word))
    IN  RegExpTest(<<"\\", "b">> \o escapeRegex(cleanWord) \o <<"\\", "b">>,
                   lowerUsername)

\* wordRegex.test(lowerUsername) for one word of the list.
WholeWordMatch(word, lowerUsername) ==
    LET cleanWord == trim(toLowerCase(word))
    IN  /\ Len(cleanWord) >= MinWordLen
        /\ RegExpTest(<<"\\", "b">> \o escapeRegex(cleanWord) \o <<"\\", "b">>,
                      lowerUsername)

\* containsProfanity of v2 and v3 (word-boundary policy), on the list words.
containsProfanityBoundary(words, username) ==
    LET lowerUsername == trim(toLowerCase(username))
    IN  /\ Len(words) # 0
        /\ \/ \E i \in 1..Len(words) : lowerUsername = trim(toLowerCase(words[i]))
           \/ \E i \in 1..Len(words) : WholeWordMatch(words[i], lowerUsername)

\* The class [0-9@#$%^&*()_+\-=\[\]{};':"\\|,.<>\/?] that v1 strips.
ObfuscationChars ==
    Digits \cup {"@", "#", "$", "%", "^", "&", "*", "(", ")", "_", "+", "-", "=",
                 "[", "]", "{", "}", ";", "'", ":", "\"", "\\", "|", ",", ".",
                 "<", ">", "/", "?"}

IsNotObfuscation(c) == c \notin ObfuscationChars
IsNotWhiteSpace(c) == c \notin WhiteSpace
IsAsciiLower(c) == c \in Range(AsciiLower)

\* lowerUsername.replace(/[0-9@#...]/g, '').replace(/\s+/g, '')
normalizeUsername(lowerUsername) ==
    SelectSeq(SelectSeq(lowerUsername, IsNotObfuscation), IsNotWhiteSpace)

\* word.toLowerCase().replace(/[^a-z]/g, '')
normalizeWord(word) == SelectSeq(toLowerCase(word), IsAsciiLower)

\* containsProfanity of v1 (normalized-substring policy), on the list words.
containsProfanitySubstring(words, username) ==
    LET lowerUsername == toLowerCase(username)
        normalized == normalizeUsername(lowerUsername)
    IN  /\ Len(words) # 0
        /\ \E i \in 1..Len(words) :
              \/ includes(normalized, normalizeWord(words[i]))
              \/ includes(lowerUsername, toLowerCase(words[i]))

\* containsProfanity that blocks every username while no word is loaded.
containsProfanityFailClosed(username) ==
    \/ Len(PROFANITY_WORDS) = 0
    \/ IF version = "v1"
       THEN containsProfanitySubstring(PROFANITY_WORDS, username)
       ELSE containsProfanityBoundary(PROFANITY_WORDS, username)

\* containsProfanity(username) of the revision that runs.
containsProfanity(username) ==
    IF version = "v1"
    THEN containsProfanitySubstring(PROFANITY_WORDS, username)
    ELSE containsProfanityBoundary(PROFANITY_WORDS, username)

(***************************************************************************)
(* Configuration.                                                          *)
(***************************************************************************)
\* The values SUPABASE_CONFIG can have: not defined, defined but null, or an
\* object whose url and anonKey are a string or missing ("" stands for both:
\* `x || ''` gives '' for either).
ConfigUrls == {"", "https://project.supabase.co"}
ConfigKeys == {"", "anon-key"}
ConfigUndefined == [state |-> "undefined", url |-> "", anonKey |-> ""]
ConfigNull == [state |-> "null", url |-> "", anonKey |-> ""]
ConfigObjects == [state : {"object"}, url : ConfigUrls, anonKey : ConfigKeys]
ConfigDefined == {ConfigNull} \cup ConfigObjects
ConfigValues == {ConfigUndefined} \cup ConfigDefined

\* initSupabaseConfig(): the values of <<SUPABASE_URL, SUPABASE_KEY>> after it.
initSupabaseConfig(cfg, url, key) ==
    IF cfg.state # "undefined" /\ cfg.state # "null"
    THEN <<cfg.url, cfg.anonKey>>
    ELSE <<url, key>>

\* `if (!SUPABASE_URL || !SUPABASE_KEY) initSupabaseConfig();` at the head of
\* getTopScores and submitScore: the pair after this statement.
EnsureConfig(cfg, url, key) ==
    IF url = "" \/ key = "" THEN initSupabaseConfig(cfg, url, key) ELSE <<url, key>>

\* The configuration check with the key forgotten.
ConfigMissingUrlOnly(pair) == pair[1] = ""

\* `if (!SUPABASE_URL || !SUPABASE_KEY) throw ...`, on the pair after EnsureConfig.
ConfigMissing(pair) == pair[1] = "" \/ pair[2] = ""

\* The state after the script has run: the IIFE initialises at once when
\* SUPABASE_CONFIG is defined, and arms the 100 ms timer otherwise.
ConfigInit ==
    /\ SUPABASE_CONFIG \in ConfigValues
    /\ LET pair == IF SUPABASE_CONFIG.state # "undefined"
                   THEN initSupabaseConfig(SUPABASE_CONFIG, "", "")
                   ELSE <<"", "">>
       IN  /\ SUPABASE_URL = pair[1]
           /\ SUPABASE_KEY = pair[2]
    /\ timer = IF SUPABASE_CONFIG.state # "undefined" THEN "none" ELSE "pending"

(***************************************************************************)
(* The wordlist file and loadProfanityWords.                               *)
(***************************************************************************)
\* " Ass \r\n\nas\n": mixed case, padding, a CR, a blank line, a short word.
FileWords == <<" ", "A", "s", "s", " ", "\r", "\n", "\n", "a", "s", "\n">>
\* "\n \n": a file without any word.
FileBlank == <<"\n", " ", "\n">>
WordlistTexts == {FileWords, FileBlank}

\* What the fetch of profanity.txt can produce: a rejected fetch, a response
\* that is not ok, or an ok response with its text.
WordlistResponses ==
    {[kind |-> "neterr", text |-> << >>], [kind |-> "notok", text |-> << >>]}
    \cup [kind : {"ok"}, text : WordlistTexts]

Loads == 1..MaxLoads
LoadIdle == [pc |-> "idle", outcome |-> "none", settled |-> "pending"]

LoadInit ==
    /\ PROFANITY_WORDS = << >>
    /\ profanityLoaded = FALSE
    /\ wordFetches = 0
    /\ loads = [l \in Loads |-> LoadIdle]

\* loadProfanityWords without its guard.
LoadNeverSkips == FALSE

\* loadProfanityWords(), up to its first await: the guard and the fetch.
LoadAlreadyLoaded == profanityLoaded

LoadStart(l) ==
    /\ loads[l].pc = "idle"
    /\ IF LoadAlreadyLoaded
       THEN /\ loads' = [loads EXCEPT ![l] =
                            [pc |-> "done", outcome |-> "noop", settled |-> "resolved"]]
            /\ UNCHANGED wordFetches
       ELSE /\ loads' = [loads EXCEPT ![l].pc = "fetching"]
            /\ wordFetches' = wordFetches + 1
    /\ UNCHANGED <<version, SUPABASE_CONFIG, SUPABASE_URL, SUPABASE_KEY, timer,
                   PROFANITY_WORDS, profanityLoaded, subs, tops, probe>>

\* The state loadProfanityWords leaves when the fetch has answered with r:
\* <<PROFANITY_WORDS, profanityLoaded, outcome, settled>>.
LoadOutcome(r, loaded) ==
    IF r.kind = "ok"
    THEN <<ParseWordlist(r.text), TRUE, "loaded", "resolved">>
    ELSE <<<< >>, loaded, "failed", "resolved">>

\* loadProfanityWords(), from the answer of the fetch to its end (the two
\* awaits, fetch and response.text(), touch no state in between).
LoadResponse(l, r) ==
    /\ loads[l].pc = "fetching"
    /\ LET out == LoadOutcome(r, profanityLoaded)
       IN  /\ PROFANITY_WORDS' = out[1]
           /\ profanityLoaded' = out[2]
           /\ loads' = [loads EXCEPT ![l] =
                           [pc |-> "done", outcome |-> out[3], settled |-> out[4]]]
    /\ UNCHANGED <<version, SUPABASE_CONFIG, SUPABASE_URL, SUPABASE_KEY, timer,
                   wordFetches, subs, tops, probe>>

(***************************************************************************)
(* Values that cross the network.                                          *)
(***************************************************************************)
\* JavaScript values of the fields of an IP provider's answer and of the
\* result of getClientIP.  A number stands for any non-zero number.
JsUndefined == [t |-> "undefined", s |-> << >>]
JsNull == [t |-> "null", s |-> << >>]
JsNumber == [t |-> "number", s |-> << >>]
JsString(str) == [t |-> "string", s |-> str]

\* ToBoolean
IsTruthy(v) == (v.t = "string" /\ v.s # << >>) \/ v.t = "number"

\* a || b
JsOr(a, b) == IF IsTruthy(a) THEN a ELSE b

\* The providers getClientIP asks, in the order of its array.
services == <<"ipify", "ipify64", "ipapi", "myip">>

\* Bodies an IP provider can answer with.
DataIp == [ip |-> JsString(<<"1">>), query |-> JsString(<<"9">>), IPv4 |-> JsUndefined]
DataQueryPadded ==
    [ip |-> JsString(<< >>), query |-> JsString(<<" ", "1", " ">>), IPv4 |-> JsString(<<"9">>)]
DataIPv4 == [ip |-> JsUndefined, query |-> JsUndefined, IPv4 |-> JsString(<<"1">>)]
DataBlank == [ip |-> JsString(<<" ">>), query |-> JsUndefined, IPv4 |-> JsUndefined]
DataEmpty == [ip |-> JsUndefined, query |-> JsUndefined, IPv4 |-> JsUndefined]
DataNumberIp == [ip |-> JsNumber, query |-> JsString(<<"1">>), IPv4 |-> JsUndefined]
ProviderData == {DataIp, DataQueryPadded, DataIPv4, DataBlank, DataEmpty, DataNumberIp}

\* What one provider can produce: a rejected fetch, a response that is not ok,
\* an ok response whose body does not parse, or an ok response with data.
ProviderResponses ==
    {[kind |-> k, data |-> DataEmpty] : k \in {"neterr", "notok", "badjson"}}
    \cup [kind : {"json"}, data : ProviderData]
NoResponse == [kind |-> "none", data |-> DataEmpty]

\* const ip = data.ip || data.query || data.IPv4 || null;
PickIp(data) == JsOr(JsOr(JsOr(data.ip, data.query), data.IPv4), JsNull)

\* if (ip && typeof ip === 'string'), for the answer r of one provider
ProviderYieldsIp(r) ==
    /\ r.kind = "json"
    /\ IsTruthy(PickIp(r.data))
    /\ PickIp(r.data).t = "string"

\* return ip.trim();
ProviderIp(r) == JsString(trim(PickIp(r.data).s))

\* Scores the page can pass: a number (finite, in tenths, or NaN) or a string.
NumberScore(tenths) == [type |-> "number", num |-> "finite", tenths |-> tenths]
ScoreString == [type |-> "string", num |-> "finite", tenths |-> 0]
ScoreNaN == [type |-> "number", num |-> "NaN", tenths |-> 0]
NoScore == [type |-> "undefined", num |-> "finite", tenths |-> 0]

\* score < 0
IsNegative(score) == score.num = "finite" /\ score.tenths < 0

\* Math.round(score) in the place of Math.floor(score).
round(score) ==
    IF score.num = "finite"
    THEN [score EXCEPT !.tenths = ((score.tenths + 5) \div 10) * 10]
    ELSE score

\* Math.floor(score), for a number
floor(score) ==
    IF score.num = "finite"
    THEN [score EXCEPT !.tenths = (score.tenths \div 10) * 10]
    ELSE score

\* JSON.stringify of a number: NaN is written as null.
JsonNumber(x) ==
    IF x.num = "finite" THEN [t |-> "number", tenths |-> x.tenths]
    ELSE [t |-> "null", tenths |-> 0]

\* The body of the write: the keys it has and their values.
NoBody == [fields |-> {}, username |-> << >>,
           score |-> [t |-> "null", tenths |-> 0], ip_address |-> << >>]

\* requestBody of submitScore (v1 and v2 pass ipAddress = null).
RequestBody(username, score, ipAddress) ==
    [fields |-> {"username", "score"}
                \cup (IF IsTruthy(ipAddress) THEN {"ip_address"} ELSE {}),
     username |-> trim(username),
     score |-> JsonNumber(floor(score)),
     ip_address |-> IF IsTruthy(ipAddress) THEN ipAddress.s ELSE << >>]

\* What the write can produce.  A response that is not ok carries a text and
\* what JSON.parse makes of it: parses says whether it is JSON, message is
\* the message property of the parsed value ("" when missing or empty).
ErrorBodies ==
    { [text |-> "{\"message\":\"duplicate key\"}", parses |-> TRUE, message |-> "duplicate key"],
      [text |-> "{\"code\":\"23505\"}", parses |-> TRUE, message |-> ""],
      [text |-> "Bad Gateway", parses |-> FALSE, message |-> ""],
      [text |-> "", parses |-> FALSE, message |-> ""] }
NoErrorBody == [text |-> "", parses |-> FALSE, message |-> ""]
WriteResponses ==
    {[kind |-> k, body |-> NoErrorBody] : k \in {"neterr", "ok", "okbadjson"}}
    \cup [kind : {"notok"}, body : ErrorBodies]

\* The message of the Error that submitScore throws for a write that is not ok
\* (the status of the model is 500).
WriteErrorMessage(body) ==
    IF body.parses
    THEN (IF body.message # "" THEN body.message ELSE "Failed to submit score: 500")
    ELSE body.text

\* Leaderboards the remote can answer a read with (scores of the rows, in the
\* order the remote sends them).
Leaderboards == {<<3, 9, 3>>, <<9>>}
ReadResponses ==
    {[kind |-> k, rows |-> << >>] : k \in {"neterr", "notok", "okbadjson"}}
    \cup [kind : {"ok"}, rows : Leaderboards]

\* getTopScores(limit = 50)
DefaultLimit == 50
LimitArgs == {[given |-> FALSE, n |-> 0], [given |-> TRUE, n |-> 2]}
EffectiveLimit(arg) == IF arg.given THEN arg.n ELSE DefaultLimit

(***************************************************************************)
(* submitScore and getTopScores.                                           *)
(***************************************************************************)
MaxNameLen == 20

\* Usernames the page passes to submitScore.
NameEmpty == << >>
NameBlank == <<" ", " ">>
NameOk == <<" ", "B", "o", "b", " ">>
NameListed == <<"A", "s", "s">>
NamePadded20 == <<" ">> \o [i \in 1..MaxNameLen |-> "b"] \o <<" ">>
NameLong == [i \in 1..(MaxNameLen + 1) |-> "b"]
NameLongListed == <<"a", "s", "s", " ">> \o [i \in 1..MaxNameLen |-> "b"]
Usernames ==
    {NameEmpty, NameBlank, NameOk, NameListed, NamePadded20, NameLong, NameLongListed}

\* Scores the page passes to submitScore: "12", -5, -0.5, 42.9, 7, NaN.
Scores ==
    {ScoreString, NumberScore(-50), NumberScore(-5), NumberScore(429),
     NumberScore(70), ScoreNaN}

\* Validate without its last check (the score is sent as it comes).
ValidateWithoutScoreCheck(username, score) ==
    IF Len(username) = 0 \/ Len(trim(username)) = 0 THEN "required"
    ELSE IF Len(trim(username)) > MaxNameLen THEN "toolong"
    ELSE IF containsProfanity(username) THEN "profanity"
    ELSE "ok"

\* Validate with the score checked first and the filter before the length.
ValidateReordered(username, score) ==
    IF score.type # "number" \/ IsNegative(score) THEN "score"
    ELSE IF Len(username) = 0 \/ Len(trim(username)) = 0 THEN "required"
    ELSE IF containsProfanity(username) THEN "profanity"
    ELSE IF Len(trim(username)) > MaxNameLen THEN "toolong"
    ELSE "ok"

\* The validation of submitScore: "ok", or the check that throws.
Validate(username, score) ==
    IF Len(username) = 0 \/ Len(trim(username)) = 0 THEN "required"
    ELSE IF Len(trim(username)) > MaxNameLen THEN "toolong"
    ELSE IF containsProfanity(username) THEN "profanity"
    ELSE IF score.type # "number" \/ IsNegative(score) THEN "score"
    ELSE "ok"

\* Whether the revision looks the client IP up before the write.
LooksUpIp == version = "v3"

\* Arguments a caller passes after username and score; the function declares
\* two parameters, so they reach no statement of it.
NoExtraArgs == [speed |-> NoScore, skin |-> JsUndefined]
ExtraArgs ==
    [speed : {NoScore, NumberScore(37)},
     skin : {JsUndefined, JsString(<<"#", "F", "F", "0", "0", "0", "0">>)}]

Subs == 1..MaxSubmits
SubIdle ==
    [pc |-> "idle", username |-> << >>, score |-> NoScore, extra |-> NoExtraArgs,
     svc |-> 0,
     last |-> NoResponse, ip |-> JsUndefined, body |-> NoBody, log |-> << >>,
     err |-> "", msg |-> "", inserted |-> FALSE, topScores |-> << >>, limit |-> 0]

Tops == 1..MaxTops
TopIdle ==
    [pc |-> "idle", limit |-> 0, log |-> << >>, err |-> "", msg |-> "",
     topScores |-> << >>]

CallsInit ==
    /\ subs = [c \in Subs |-> SubIdle]
    /\ tops = [t \in Tops |-> TopIdle]

\* The message of the configuration error of both functions.
ConfigErrorMessage == "Supabase configuration not available. Please check config.js"

\* The messages of the validation errors.
ValidationMessage(code) ==
    CASE code = "required" -> "Username is required"
      [] code = "toolong" -> "Username must be 20 characters or less"
      [] code = "profanity" ->
           "Username contains inappropriate content. Please choose a different username."
      [] code = "score" -> "Score must be a non-negative number"
      [] OTHER -> ""

Rejected(call, code, message) ==
    [call EXCEPT !.pc = "rejected", !.err = code, !.msg = message]

\* The fetch of the write: the body is built and the POST is issued.
IssueWrite(call, ipAddress) ==
    [call EXCEPT !.pc = "write", !.ip = ipAddress,
                 !.body = RequestBody(call.username, call.score, ipAddress),
                 !.log = Append(call.log, "write")]

\* getClientIP contacts provider k.
ContactProvider(call, k) ==
    [call EXCEPT !.pc = "ip", !.svc = k, !.log = Append(call.log, services[k])]

\* SubmitEntry that turns a call away while another one awaits an answer.
SubmitEntrySingleFlight(call, pair) ==
    IF ConfigMissing(pair) THEN Rejected(call, "config", ConfigErrorMessage)
    ELSE IF \E d \in DOMAIN subs : subs[d].pc \in {"ip", "write", "read"}
         THEN Rejected(call, "busy", "")
    ELSE LET v == Validate(call.username, call.score)
         IN  IF v # "ok" THEN Rejected(call, v, ValidationMessage(v))
             ELSE IF LooksUpIp THEN ContactProvider(call, 1)
             ELSE IssueWrite(call, JsNull)

\* submitScore(username, score), up to its first await: the configuration
\* check, the validation, and the first fetch (provider 1, or the write).
SubmitEntry(call, pair) ==
    IF ConfigMissing(pair) THEN Rejected(call, "config", ConfigErrorMessage)
    ELSE LET v == Validate(call.username, call.score)
         IN  IF v # "ok" THEN Rejected(call, v, ValidationMessage(v))
             ELSE IF LooksUpIp THEN ContactProvider(call, 1)
             ELSE IssueWrite(call, JsNull)

SubmitStart(c, username, score, extra) ==
    /\ subs[c].pc = "idle"
    /\ LET pair == EnsureConfig(SUPABASE_CONFIG, SUPABASE_URL, SUPABASE_KEY)
           call == [subs[c] EXCEPT !.username = username, !.score = score,
                                   !.extra = extra]
       IN  /\ SUPABASE_URL' = pair[1]
           /\ SUPABASE_KEY' = pair[2]
           /\ subs' = [subs EXCEPT ![c] = SubmitEntry(call, pair)]
    /\ UNCHANGED <<version, SUPABASE_CONFIG, timer, PROFANITY_WORDS,
                   profanityLoaded, wordFetches, loads, tops, probe>>

\* AfterProvider that gives the submission up when no provider has an IP.
AfterProviderOrThrow(call, r) ==
    LET seen == [call EXCEPT !.last = r]
    IN  IF ProviderYieldsIp(r) THEN IssueWrite(seen, ProviderIp(r))
        ELSE IF call.svc < Len(services) THEN ContactProvider(seen, call.svc + 1)
        ELSE Rejected(seen, "network", "Unable to fetch IP address")

\* AfterProvider that asks the same provider again until it has an IP.
AfterProviderRetriesSame(call, r) ==
    LET seen == [call EXCEPT !.last = r]
    IN  IF ProviderYieldsIp(r) THEN IssueWrite(seen, ProviderIp(r)) ELSE seen

\* getClientIP, after provider call.svc has answered with r: return the IP
\* (the write follows), try the next provider, or return null after the last.
AfterProvider(call, r) ==
    LET seen == [call EXCEPT !.last = r]
    IN  IF ProviderYieldsIp(r) THEN IssueWrite(seen, ProviderIp(r))
        ELSE IF call.svc < Len(services) THEN ContactProvider(seen, call.svc + 1)
        ELSE IssueWrite(seen, JsNull)

SubmitProviderResponse(c, r) ==
    /\ subs[c].pc = "ip"
    /\ subs' = [subs EXCEPT ![c] = AfterProvider(subs[c], r)]
    /\ UNCHANGED <<version, SUPABASE_CONFIG, SUPABASE_URL, SUPABASE_KEY, timer,
                   PROFANITY_WORDS, profanityLoaded, wordFetches, loads, tops, probe>>

\* getTopScores(limit), up to its await: the configuration check and the POST
\* of rpc/get_top_scores with limit_count.
ReadEntry(call, pair, limit) ==
    IF ConfigMissing(pair) THEN Rejected(call, "config", ConfigErrorMessage)
    ELSE [call EXCEPT !.pc = "read", !.limit = limit, !.log = Append(call.log, "read")]

\* AfterRead that hides a failed read behind an empty leaderboard.
AfterReadSwallowsFailure(call, r) ==
    IF r.kind = "ok"
    THEN [call EXCEPT !.pc = "resolved", !.topScores = r.rows,
                      !.log = Append(call.log, "read:ok")]
    ELSE [call EXCEPT !.pc = "resolved", !.topScores = << >>,
                      !.log = Append(call.log, "read:fail")]

\* AfterRead that sends the read once more when the fetch was rejected.
AfterReadRetries(call, r) ==
    CASE r.kind = "ok" ->
           [call EXCEPT !.pc = "resolved", !.topScores = r.rows,
                        !.log = Append(call.log, "read:ok")]
      [] r.kind = "notok" ->
           [Rejected(call, "read", "Failed to fetch scores: 500")
              EXCEPT !.log = Append(call.log, "read:fail")]
      [] OTHER ->
           IF "read:fail" \notin Range(call.log)
           THEN [call EXCEPT !.log = call.log \o <<"read:fail", "read">>]
           ELSE [Rejected(call, "network", "")
                   EXCEPT !.log = Append(call.log, "read:fail")]

\* AfterRead that keeps no more rows than the limit that was asked for.
AfterReadTruncates(call, r) ==
    CASE r.kind = "ok" ->
           [call EXCEPT !.pc = "resolved",
                        !.topScores =
                            IF Len(r.rows) > call.limit
                            THEN SubSeq(r.rows, 1, call.limit) ELSE r.rows,
                        !.log = Append(call.log, "read:ok")]
      [] r.kind = "notok" ->
           [Rejected(call, "read", "Failed to fetch scores: 500")
              EXCEPT !.log = Append(call.log, "read:fail")]
      [] OTHER ->
           [Rejected(call, "network", "") EXCEPT !.log = Append(call.log, "read:fail")]

\* getTopScores, after the read has answered with r.
AfterRead(call, r) ==
    CASE r.kind = "ok" ->
           [call EXCEPT !.pc = "resolved", !.topScores = r.rows,
                        !.log = Append(call.log, "read:ok")]
      [] r.kind = "notok" ->
           [Rejected(call, "read", "Failed to fetch scores: 500")
              EXCEPT !.log = Append(call.log, "read:fail")]
      [] OTHER ->
           [Rejected(call, "network", "") EXCEPT !.log = Append(call.log, "read:fail")]

\* AfterWrite that fetches the leaderboard whatever the write answered.
AfterWriteAlwaysReads(call, r, pair) ==
    ReadEntry([call EXCEPT !.last = NoResponse, !.inserted = (r.kind = "ok"),
                           !.log = Append(call.log,
                                          IF r.kind = "ok" THEN "write:ok" ELSE "write:fail")],
              pair, DefaultLimit)

\* submitScore, after the write has answered with r: throw, or take the
\* inserted row and call getTopScores(50).
AfterWrite(call, r, pair) ==
    LET seen == [call EXCEPT !.last = NoResponse]
    IN  CASE r.kind = "ok" ->
               ReadEntry([seen EXCEPT !.inserted = TRUE,
                                      !.log = Append(call.log, "write:ok")],
                         pair, DefaultLimit)
          [] r.kind = "notok" ->
               [Rejected(seen, "write", WriteErrorMessage(r.body))
                  EXCEPT !.log = Append(call.log, "write:fail")]
          [] OTHER ->
               [Rejected(seen, "network", "") EXCEPT !.log = Append(call.log, "write:fail")]

SubmitWriteResponse(c, r) ==
    /\ subs[c].pc = "write"
    /\ LET pair == IF r.kind = "ok"
                   THEN EnsureConfig(SUPABASE_CONFIG, SUPABASE_URL, SUPABASE_KEY)
                   ELSE <<SUPABASE_URL, SUPABASE_KEY>>
       IN  /\ SUPABASE_URL' = pair[1]
           /\ SUPABASE_KEY' = pair[2]
           /\ subs' = [subs EXCEPT ![c] = AfterWrite(subs[c], r, pair)]
    /\ UNCHANGED <<version, SUPABASE_CONFIG, timer, PROFANITY_WORDS,
                   profanityLoaded, wordFetches, loads, tops, probe>>

SubmitReadResponse(c, r) ==
    /\ subs[c].pc = "read"
    /\ subs' = [subs EXCEPT ![c] = AfterRead(subs[c], r)]
    /\ UNCHANGED <<version, SUPABASE_CONFIG, SUPABASE_URL, SUPABASE_KEY, timer,
                   PROFANITY_WORDS, profanityLoaded, wordFetches, loads, tops, probe>>

\* getTopScores called by the page.
TopStart(t, arg) ==
    /\ tops[t].pc = "idle"
    /\ LET pair == EnsureConfig(SUPABASE_CONFIG, SUPABASE_URL, SUPABASE_KEY)
       IN  /\ SUPABASE_URL' = pair[1]
           /\ SUPABASE_KEY' = pair[2]
           /\ tops' = [tops EXCEPT ![t] = ReadEntry(tops[t], pair, EffectiveLimit(arg))]
    /\ UNCHANGED <<version, SUPABASE_CONFIG, timer, PROFANITY_WORDS,
                   profanityLoaded, wordFetches, loads, subs, probe>>

TopResponse(t, r) ==
    /\ tops[t].pc = "read"
    /\ tops' = [tops EXCEPT ![t] = AfterRead(tops[t], r)]
    /\ UNCHANGED <<version, SUPABASE_CONFIG, SUPABASE_URL, SUPABASE_KEY, timer,
                   PROFANITY_WORDS, profanityLoaded, wordFetches, loads, subs, probe>>

(***************************************************************************)
(* The environment of the script: config.js and the timer.                 *)
(***************************************************************************)
\* config.js is loaded after the script has run.
DefineConfig(cfg) ==
    /\ SUPABASE_CONFIG.state = "undefined"
    /\ SUPABASE_CONFIG' = cfg
    /\ UNCHANGED <<version, SUPABASE_URL, SUPABASE_KEY, timer, PROFANITY_WORDS,
                   profanityLoaded, wordFetches, loads, subs, tops, probe>>

\* The callback of setTimeout(..., 100).
TimerFires ==
    /\ timer = "pending"
    /\ timer' = "fired"
    /\ LET pair == IF SUPABASE_CONFIG.state # "undefined"
                   THEN initSupabaseConfig(SUPABASE_CONFIG, SUPABASE_URL, SUPABASE_KEY)
                   ELSE <<SUPABASE_URL, SUPABASE_KEY>>
       IN  /\ SUPABASE_URL' = pair[1]
           /\ SUPABASE_KEY' = pair[2]
    /\ UNCHANGED <<version, SUPABASE_CONFIG, PROFANITY_WORDS, profanityLoaded,
                   wordFetches, loads, subs, tops, probe>>

(***************************************************************************)
(* containsProfanity called by the page on a candidate.                    *)
(***************************************************************************)
\* U+00E9, a small letter outside ASCII (one UTF-16 code unit, its own lower
\* case, not matched by \w, not white space).
EAcute == "U+00E9"

CandidateChars == {"a", "s", "p", "S", " ", "-", "5", "!", EAcute}

\* Longer usernames: a listed word written with a separator between every
\* letter, and a listed word next to another word.
LongCandidates ==
    { <<"a", "-", "s", "-", "s">>,
      <<"A", " ", "s", " ", "s">>,
      <<"a", "s", "-", " ", "a">>,
      <<"a", " ", "a", "s", "-">>,
      <<"a", " ", "A", "s", "s", " ", "a">> }

Candidates ==
    UNION {[1..n -> CandidateChars] : n \in 0..MaxCandLen} \cup LongCandidates

\* Wordlists as loadProfanityWords leaves them: lower case, trimmed, no
\* empty entry (an entry may have no letter at all).
Wordlists ==
    { << >>,
      << <<"a", "s", "s">> >>,
      << <<"a", "s">> >>,
      << <<"a", "s", "-">> >>,
      << <<"s", "a">>, <<"a", "s", "s">> >>,
      << <<"1", "2", "3">> >> }

ProbeIdle == [cand |-> << >>, done |-> FALSE, flagged |-> FALSE]

CheckName ==
    /\ ~probe.done
    /\ probe' = [probe EXCEPT !.done = TRUE, !.flagged = containsProfanity(probe.cand)]
    /\ UNCHANGED <<version, SUPABASE_CONFIG, SUPABASE_URL, SUPABASE_KEY, timer,
                   PROFANITY_WORDS, profanityLoaded, wordFetches, loads, subs, tops>>

(***************************************************************************)
(* Specifications.                                                         *)
(***************************************************************************)
\* The configuration of a page whose config.js was loaded before the script.
ConfigFull ==
    [state |-> "object", url |-> "https://project.supabase.co", anonKey |-> "anon-key"]

\* Spec: the calls of submitScore and getTopScores, the late arrival of
\* config.js and the timer; the wordlist is either not loaded or loaded.
Init ==
    /\ version \in Versions
    /\ ConfigInit
    /\ \E loaded \in BOOLEAN :
          /\ profanityLoaded = loaded
          /\ PROFANITY_WORDS = IF loaded THEN ParseWordlist(FileWords) ELSE << >>
          /\ wordFetches = IF loaded THEN 1 ELSE 0
    /\ loads = [l \in Loads |-> LoadIdle]
    /\ CallsInit
    /\ probe = ProbeIdle

\* The answers of the network to the calls of submitScore in flight.
SubmitResponses ==
    \/ \E c \in DOMAIN subs, r \in ProviderResponses : SubmitProviderResponse(c, r)
    \/ \E c \in DOMAIN subs, r \in WriteResponses : SubmitWriteResponse(c, r)
    \/ \E c \in DOMAIN subs, r \in ReadResponses : SubmitReadResponse(c, r)

SubmitNext ==
    \/ \E c \in Subs, u \in Usernames, sc \in Scores :
          SubmitStart(c, u, sc, NoExtraArgs)
    \/ SubmitResponses

Next ==
    \/ SubmitNext
    \/ \E t \in Tops, arg \in LimitArgs : TopStart(t, arg)
    \/ \E t \in Tops, r \in ReadResponses : TopResponse(t, r)
    \/ \E cfg \in ConfigDefined : DefineConfig(cfg)
    \/ TimerFires

Spec == Init /\ [][Next]_vars

\* LiveSpec: Spec in a network that answers: every request of a submitScore
\* call is answered or fails in the end (the browser settles every fetch
\* whose peer responds or whose connection breaks).
LiveSpec == Init /\ [][Next]_vars /\ WF_vars(SubmitResponses)

\* LoadSpec: the calls of loadProfanityWords interleaved with submitScore, on
\* a page whose configuration is present.
LoadSpecInit ==
    /\ version \in Versions
    /\ SUPABASE_CONFIG = ConfigFull
    /\ SUPABASE_URL = ConfigFull.url
    /\ SUPABASE_KEY = ConfigFull.anonKey
    /\ timer = "none"
    /\ LoadInit
    /\ CallsInit
    /\ probe = ProbeIdle

LoadSpecNext ==
    \/ \E l \in Loads : LoadStart(l)
    \/ \E l \in Loads, r \in WordlistResponses : LoadResponse(l, r)
    \/ SubmitNext

LoadSpec == LoadSpecInit /\ [][LoadSpecNext]_vars

\* ArgsSpec: submitScore called with four arguments (username, score, speed,
\* skin) on a page whose configuration is present.
ArgsSpecInit ==
    /\ version \in Versions
    /\ SUPABASE_CONFIG = ConfigFull
    /\ SUPABASE_URL = ConfigFull.url
    /\ SUPABASE_KEY = ConfigFull.anonKey
    /\ timer = "none"
    /\ PROFANITY_WORDS = ParseWordlist(FileWords)
    /\ profanityLoaded = TRUE
    /\ wordFetches = 1
    /\ loads = [l \in Loads |-> LoadIdle]
    /\ CallsInit
    /\ probe = ProbeIdle

ArgsSpecNext ==
    \/ \E c \in Subs, u \in Usernames, sc \in Scores, x \in ExtraArgs :
          SubmitStart(c, u, sc, x)
    \/ SubmitResponses

ArgsSpec == ArgsSpecInit /\ [][ArgsSpecNext]_vars

\* PairSpec: two calls of submitScore in flight together, each with its own
\* arguments, on a page whose configuration and wordlist are present.
PairCalls == {1, 2}
\* The arguments of the first call and those of the second.
PairUsernames == <<{NameOk, NameListed}, {NamePadded20}>>
PairScores == <<{NumberScore(429)}, {NumberScore(70)}>>

PairSpecInit ==
    /\ version \in Versions
    /\ SUPABASE_CONFIG = ConfigFull
    /\ SUPABASE_URL = ConfigFull.url
    /\ SUPABASE_KEY = ConfigFull.anonKey
    /\ timer = "none"
    /\ PROFANITY_WORDS = ParseWordlist(FileWords)
    /\ profanityLoaded = TRUE
    /\ wordFetches = 1
    /\ loads = [l \in Loads |-> LoadIdle]
    /\ subs = [c \in PairCalls |-> SubIdle]
    /\ tops = [t \in Tops |-> TopIdle]
    /\ probe = ProbeIdle

PairSpecNext ==
    \/ \E c \in PairCalls :
          \E u \in PairUsernames[c], sc \in PairScores[c] :
             SubmitStart(c, u, sc, NoExtraArgs)
    \/ SubmitResponses

PairSpec == PairSpecInit /\ [][PairSpecNext]_vars

\* FilterSpec: containsProfanity applied to every candidate of the bounded
\* set, under every wordlist of Wordlists, by the two policies.
FilterSpecInit ==
    /\ version \in {"v1", "v3"}
    /\ SUPABASE_CONFIG = ConfigFull
    /\ SUPABASE_URL = ConfigFull.url
    /\ SUPABASE_KEY = ConfigFull.anonKey
    /\ timer = "none"
    /\ PROFANITY_WORDS \in Wordlists
    /\ profanityLoaded = TRUE
    /\ wordFetches = 1
    /\ loads = [l \in Loads |-> LoadIdle]
    /\ CallsInit
    /\ probe \in [cand : Candidates, done : {FALSE}, flagged : {FALSE}]

FilterSpec == FilterSpecInit /\ [][CheckName]_vars

(***************************************************************************)
(* Properties of submitScore and getTopScores (checked under Spec).        *)
(***************************************************************************)
Started(call) == call.pc # "idle"
Requests(call) == {call.log[i] : i \in 1..Len(call.log)}
Count(log, e) == Cardinality({i \in 1..Len(log) : log[i] = e})

\* The four local checks, as the contract words them.
UsernameEmpty(call) == Len(trim(call.username)) = 0
UsernameTooLong(call) == Len(trim(call.username)) > 20
UsernameFlagged(call) == containsProfanity(call.username)
ScoreInvalid(call) == call.score.type # "number" \/ call.score.tenths < 0
FailsValidation(call) ==
    UsernameEmpty(call) \/ UsernameTooLong(call) \/ UsernameFlagged(call)
    \/ ScoreInvalid(call)

\* C1: a submitScore call whose input fails a local validation (username
\* empty after trim, trimmed username longer than 20, username flagged, score
\* not a number or negative) has issued no network request at all: no IP
\* lookup, no write, no read; so a write is issued only for an input that
\* passes the four checks.
C1_NoRequestOnInvalidInput ==
    \A c \in Subs :
        Started(subs[c]) /\ FailsValidation(subs[c]) => subs[c].log = << >>

C1_Witness ==
    \E c \in Subs :
        /\ subs[c].pc = "rejected"
        /\ subs[c].err = "score"
        /\ subs[c].username = NameOk
        /\ subs[c].score = ScoreString
        /\ subs[c].log = << >>

\* The configuration is absent: SUPABASE_CONFIG is undefined (or null), or
\* its url or anonKey is empty.
ConfigAbsent ==
    \/ SUPABASE_CONFIG.state # "object"
    \/ SUPABASE_CONFIG.url = ""
    \/ SUPABASE_CONFIG.anonKey = ""

\* C2: while the configuration is absent (it was absent, then, for every call
\* made so far), SUPABASE_URL or SUPABASE_KEY is empty and every getTopScores
\* and submitScore call made has rejected with the configuration error
\* without issuing any network request.
C2_ConfigAbsentRejectsBeforeNetwork ==
    ConfigAbsent =>
        /\ SUPABASE_URL = "" \/ SUPABASE_KEY = ""
        /\ \A c \in Subs :
              Started(subs[c]) =>
                  /\ subs[c].pc = "rejected"
                  /\ subs[c].err = "config"
                  /\ subs[c].msg = ConfigErrorMessage
                  /\ subs[c].log = << >>
        /\ \A t \in Tops :
              Started(tops[t]) =>
                  /\ tops[t].pc = "rejected"
                  /\ tops[t].err = "config"
                  /\ tops[t].msg = ConfigErrorMessage
                  /\ tops[t].log = << >>

C2_Witness ==
    /\ SUPABASE_CONFIG.state = "object"
    /\ SUPABASE_CONFIG.url # ""
    /\ SUPABASE_CONFIG.anonKey = ""
    /\ \E c \in Subs : subs[c].err = "config" /\ subs[c].username = NameOk
    /\ \E t \in Tops : tops[t].err = "config"

C4_FirstInvalidFieldReported ==
    \A c \in Subs :
        LET call == subs[c]
        IN  Started(call) /\ call.err # "config" =>
                /\ UsernameEmpty(call) =>
                      call.pc = "rejected" /\ call.msg = "Username is required"
                /\ ~UsernameEmpty(call) /\ UsernameTooLong(call) =>
                      /\ call.pc = "rejected"
                      /\ call.msg = "Username must be 20 characters or less"
                /\ ~UsernameEmpty(call) /\ ~UsernameTooLong(call) /\ UsernameFlagged(call) =>
                      /\ call.pc = "rejected"
                      /\ call.msg = "Username contains inappropriate content. Please choose a different username."
                /\ ~UsernameEmpty(call) /\ ~UsernameTooLong(call) /\ ~UsernameFlagged(call)
                   /\ ScoreInvalid(call) =>
                      /\ call.pc = "rejected"
                      /\ call.msg = "Score must be a non-negative number"

\* a username that is too long and holds a listed word, with a score that is
\* not a number: three checks fail, the length is reported
C4_Witness ==
    \E c \in Subs :
        /\ subs[c].username = NameLongListed
        /\ subs[c].score = ScoreString
        /\ PROFANITY_WORDS # << >>
        /\ subs[c].pc = "rejected"
        /\ subs[c].err = "toolong"

(***************************************************************************)
(* Properties of the IP lookup (revision v3, checked under Spec).          *)
(***************************************************************************)
IsService(e) == \E k \in 1..Len(services) : services[k] = e
Contacted(call) == SelectSeq(call.log, IsService)

\* The fields of a provider's answer that hold a string IP.
StringIpFields(r) ==
    {f \in {"ip", "query", "IPv4"} : r.data[f].t = "string" /\ r.data[f].s # << >>}

\* A provider has failed, in the words of the contract: network error, non-OK
\* status, unparsable body, or no string IP under ip, query or IPv4.
ProviderFailed(r) ==
    \/ r.kind \in {"neterr", "notok", "badjson"}
    \/ r.kind = "json" /\ StringIpFields(r) = {}

\* C5: getClientIP contacts ipify, ipify64, ipapi, myip in this order;
\* a provider is contacted only after the provider before it (hence every
\* earlier one) has failed - network error, non-OK status, unparsable body,
\* or no string IP under ip/query/IPv4 -, and once a provider yields a string
\* IP the result is that IP, trimmed, and no later provider is contacted.
C5_ProvidersTriedInOrder ==
    \A c \in Subs :
        LET call == subs[c]
        IN  call.svc > 0 =>
                /\ Contacted(call) = SubSeq(services, 1, call.svc)
                /\ call.pc = "ip" /\ call.svc > 1 => ProviderFailed(call.last)
                /\ call.pc = "write" =>
                      IF ProviderFailed(call.last)
                      THEN call.svc = Len(services) /\ call.ip = JsNull
                      ELSE /\ call.ip.t = "string"
                           /\ \E f \in StringIpFields(call.last) :
                                 call.ip.s = trim(call.last.data[f].s)

\* What holds of the code in place of C5: the same statement with "the
\* provider has failed" read as "the first truthy value among ip, query and
\* IPv4 is missing or not a string" (ProviderYieldsIp is false).
ProvidersTriedInOrderByFirstTruthyField ==
    \A c \in Subs :
        LET call == subs[c]
        IN  call.svc > 0 =>
                /\ Contacted(call) = SubSeq(services, 1, call.svc)
                /\ call.pc = "ip" /\ call.svc > 1 => ~ProviderYieldsIp(call.last)
                /\ call.pc = "write" =>
                      IF ~ProviderYieldsIp(call.last)
                      THEN call.svc = Len(services) /\ call.ip = JsNull
                      ELSE call.ip = JsString(trim(PickIp(call.last.data).s))

ShortCandidates == UNION {[1..n -> CandidateChars] : n \in 0..2}

\* C7: in every state in which the wordlist is empty (not loaded yet, load
\* in flight, load failed) containsProfanity is false for every candidate,
\* and a submitScore call made in such a state does not fail with the
\* content-policy error.
C7_EmptyWordlistPermitsAll ==
    /\ [](PROFANITY_WORDS = << >> =>
             \A u \in Usernames \cup ShortCandidates : ~containsProfanity(u))
    /\ [][\A c \in Subs :
             PROFANITY_WORDS = << >> /\ subs[c].pc = "idle" /\ subs'[c].pc # "idle"
                 => subs'[c].err # "profanity"]_vars

\* a load has failed, nothing was ever loaded, and a name that is on the list
\* of the file went through the validation
C7_Witness ==
    /\ PROFANITY_WORDS = << >>
    /\ ~profanityLoaded
    /\ \E l \in Loads : loads[l].outcome = "failed"
    /\ \E c \in Subs : subs[c].username = NameListed /\ "write" \in Requests(subs[c])

\* C8: a loadProfanityWords call made when profanityLoaded is true is a
\* no-op: it returns at once, issues no fetch of the wordlist file and leaves
\* PROFANITY_WORDS and profanityLoaded as they are.
C8_LoadAfterSuccessIsNoOp ==
    [][\A l \in Loads :
          profanityLoaded /\ loads[l].pc = "idle" /\ loads'[l].pc # "idle" =>
              /\ loads'[l].pc = "done"
              /\ loads'[l].settled = "resolved"
              /\ wordFetches' = wordFetches
              /\ PROFANITY_WORDS' = PROFANITY_WORDS
              /\ profanityLoaded' = profanityLoaded]_vars

C8_Witness ==
    /\ profanityLoaded
    /\ PROFANITY_WORDS = ParseWordlist(FileWords)
    /\ wordFetches = 1
    /\ \E l \in Loads : loads[l].outcome = "noop"

\* C9: when the fetch of the wordlist fails (network error or non-OK
\* response) loadProfanityWords completes normally (it does not reject) and
\* leaves PROFANITY_WORDS empty and profanityLoaded false, so that a later
\* call fetches again.
C9_FailedLoadLeavesUnloaded ==
    [][\A l \in Loads :
          loads[l].pc = "fetching" /\ loads'[l].outcome = "failed" =>
              /\ loads'[l].settled = "resolved"
              /\ PROFANITY_WORDS' = << >>
              /\ profanityLoaded' = FALSE]_vars

(***************************************************************************)
(* Properties of containsProfanity (checked under FilterSpec).             *)
(***************************************************************************)
\* A letter or a digit: the ASCII letters and digits and the letters outside
\* ASCII.
IsLetterOrDigit(ch) ==
    ch \in Range(AsciiLower) \cup Range(AsciiUpper) \cup Digits \cup {EAcute}

\* The positions at which word occurs in s, whatever the case.
Occurrences(word, s) ==
    {i \in 1..(Len(s) - Len(word) + 1) :
        toLowerCase(SubSeq(s, i, i + Len(word) - 1)) = toLowerCase(word)}

\* The occurrence of word at i lies inside a longer run of letters or digits.
EmbeddedAt(word, s, i) ==
    /\ \A j \in 1..Len(word) : IsLetterOrDigit(word[j])
    /\ \/ i > 1 /\ IsLetterOrDigit(s[i - 1])
       \/ i + Len(word) <= Len(s) /\ IsLetterOrDigit(s[i + Len(word)])

OnlyEmbedded(words, s) ==
    \A k \in 1..Len(words) :
        /\ toLowerCase(trim(s)) # words[k]
        /\ \A i \in Occurrences(words[k], s) : EmbeddedAt(words[k], s, i)

\* C10: under the word-boundary policy a candidate that equals no listed
\* word, and in which listed words occur only embedded inside a longer run of
\* letters or digits, is not flagged.
C10_EmbeddedWordNotFlagged ==
    version # "v1" /\ probe.done /\ OnlyEmbedded(PROFANITY_WORDS, probe.cand)
        => ~probe.flagged

\* What holds of the code in place of C10: the same statement for runs of the
\* characters of \w (ASCII letters, digits, underscore).
EmbeddedInWordCharsAt(word, s, i) ==
    /\ \A j \in 1..Len(word) : IsWordChar(word[j])
    /\ \/ i > 1 /\ IsWordChar(s[i - 1])
       \/ i + Len(word) <= Len(s) /\ IsWordChar(s[i + Len(word)])

EmbeddedInWordCharsNotFlagged ==
    /\ version # "v1"
    /\ probe.done
    /\ \A k \in 1..Len(PROFANITY_WORDS) :
          /\ toLowerCase(trim(probe.cand)) # PROFANITY_WORDS[k]
          /\ \A i \in Occurrences(PROFANITY_WORDS[k], probe.cand) :
                EmbeddedInWordCharsAt(PROFANITY_WORDS[k], probe.cand, i)
    => ~probe.flagged

(***************************************************************************)
(* The whole-word rule of the word-boundary policy (checked under          *)
(* FilterSpec).                                                            *)
(***************************************************************************)
\* word occurs in s at i with white space or an end of the string on each
\* side.
DelimitedAt(word, s, i) ==
    /\ i = 1 \/ s[i - 1] \in WhiteSpace
    /\ i + Len(word) > Len(s) \/ s[i + Len(word)] \in WhiteSpace

\* The candidate equals the listed word after trim, or holds it (three
\* characters or more) as a whole word, whatever the case.
HoldsListedWord(word, cand) ==
    \/ toLowerCase(trim(cand)) = word
    \/ /\ Len(word) >= 3
       /\ \E i \in Occurrences(word, cand) : DelimitedAt(word, cand, i)

\* C11: under the word-boundary policy a candidate that equals a listed word
\* (after trim, whatever the case), or contains a listed word of three
\* characters or more delimited on both sides by white space or the ends of
\* the string, is flagged; for every listed word, those that begin or end
\* with punctuation included.
C11_ListedWholeWordFlagged ==
    version # "v1" /\ probe.done
        => \A k \in 1..Len(PROFANITY_WORDS) :
              HoldsListedWord(PROFANITY_WORDS[k], probe.cand) => probe.flagged

\* What holds of the code in place of C11: the same statement for the listed
\* words whose first and last characters are characters of \w.
ListedWordWithWordCharEdgesFlagged ==
    version # "v1" /\ probe.done
        => \A k \in 1..Len(PROFANITY_WORDS) :
              /\ IsWordChar(PROFANITY_WORDS[k][1])
              /\ IsWordChar(PROFANITY_WORDS[k][Len(PROFANITY_WORDS[k])])
              /\ HoldsListedWord(PROFANITY_WORDS[k], probe.cand)
              => probe.flagged

(***************************************************************************)
(* Obfuscated spellings under the normalized-substring policy (checked     *)
(* under FilterSpec).                                                      *)
(***************************************************************************)
\* The punctuation characters of ASCII (the grave accent left out).
Punctuation ==
    {"!", "\"", "#", "$", "%", "&", "'", "(", ")", "*", "+", ",", "-", ".", "/",
     ":", ";", "<", "=", ">", "?", "@", "[", "\\", "]", "^", "_", "{", "|",
     "}", "~"}

IsAsciiLetter(c) == c \in Range(AsciiLower) \cup Range(AsciiUpper)

\* cand is word with characters of the set fill put between its letters
\* and with the case of its letters changed at will.
SpelledWith(fill, word, cand) ==
    /\ Len(word) > 0
    /\ \A j \in 1..Len(word) : IsAsciiLower(word[j])
    /\ Len(cand) > 0
    /\ IsAsciiLetter(cand[1]) /\ IsAsciiLetter(cand[Len(cand)])
    /\ \A j \in 1..Len(cand) : IsAsciiLetter(cand[j]) \/ cand[j] \in fill
    /\ toLowerCase(SelectSeq(cand, IsAsciiLetter)) = word

\* C12: under the normalized-substring policy every candidate obtained from
\* a listed word by putting digits, punctuation or white space between its
\* letters, or changing the case of letters, is flagged.
C12_ObfuscatedSpellingFlagged ==
    version = "v1" /\ probe.done
        => \A k \in 1..Len(PROFANITY_WORDS) :
              SpelledWith(Digits \cup Punctuation \cup WhiteSpace,
                          PROFANITY_WORDS[k], probe.cand)
              => probe.flagged

\* What holds of the code in place of C12: the same statement for the
\* characters of the class that the function strips, and white space.
StrippedSpellingFlagged ==
    version = "v1" /\ probe.done
        => \A k \in 1..Len(PROFANITY_WORDS) :
              SpelledWith(ObfuscationChars \cup WhiteSpace,
                          PROFANITY_WORDS[k], probe.cand)
              => probe.flagged

(***************************************************************************)
(* The body of the write (checked under Spec).                             *)
(***************************************************************************)
\* t is s without the white space at its two ends.
IsTrimOf(t, s) ==
    \E i \in 1..(Len(s) + 1) :
        /\ i + Len(t) - 1 <= Len(s)
        /\ t = SubSeq(s, i, i + Len(t) - 1)
        /\ \A j \in 1..(i - 1) : s[j] \in WhiteSpace
        /\ \A j \in (i + Len(t))..Len(s) : s[j] \in WhiteSpace
        /\ t # << >> => t[1] \notin WhiteSpace /\ t[Len(t)] \notin WhiteSpace

\* n (in tenths) is the greatest integer that is not above x (in tenths).
IsFloorOf(n, x) == n % 10 = 0 /\ n <= x /\ x < n + 10

\* C13: the body of every write that submitScore has issued carries the
\* input username without its surrounding white space, and the floor of the
\* input score (42.9 is sent as 42, an integer as it is).
C13_BodyIsTrimmedAndFloored ==
    \A c \in Subs :
        "write" \in Requests(subs[c]) =>
            /\ {"username", "score"} \subseteq subs[c].body.fields
            /\ IsTrimOf(subs[c].body.username, subs[c].username)
            /\ subs[c].score.num = "finite" =>
                  /\ subs[c].body.score.t = "number"
                  /\ IsFloorOf(subs[c].body.score.tenths, subs[c].score.tenths)
            \* floor(NaN) is NaN, which JSON writes as null
            /\ subs[c].score.num = "NaN" => subs[c].body.score.t = "null"

C13_Witness ==
    \E c \in Subs :
        /\ "write" \in Requests(subs[c])
        /\ subs[c].username = NameOk
        /\ subs[c].body.username = <<"B", "o", "b">>
        /\ subs[c].score = NumberScore(429)
        /\ subs[c].body.score = [t |-> "number", tenths |-> 420]

(***************************************************************************)
(* The optional arguments speed and skin (checked under ArgsSpec).         *)
(***************************************************************************)
SpeedSupplied(call) == call.extra.speed.type # "undefined"
SkinSupplied(call) == call.extra.skin.t # "undefined"

\* C14: the body of a write holds the field speed (the floor of the speed
\* passed) exactly when the caller passed a speed, and the field skin (the
\* colour name of the skin passed) exactly when the caller passed a skin.
C14_OptionalFieldsInBody ==
    \A c \in Subs :
        "write" \in Requests(subs[c]) =>
            /\ SpeedSupplied(subs[c]) <=> "speed" \in subs[c].body.fields
            /\ SkinSupplied(subs[c]) <=> "skin" \in subs[c].body.fields

\* What holds of the code in place of C14: the body holds username and
\* score, ip_address when an address was found, and nothing else, whatever
\* the caller passed after the score.
BodyFieldsIgnoreExtraArgs ==
    \A c \in Subs :
        "write" \in Requests(subs[c]) =>
            /\ {"username", "score"} \subseteq subs[c].body.fields
            /\ subs[c].body.fields \subseteq {"username", "score", "ip_address"}

(***************************************************************************)
(* getTopScores: limit and rows pass through (checked under Spec).         *)
(***************************************************************************)
\* C15: a getTopScores call that passes the configuration check issues one
\* read whose limit_count is the argument as given (50 when there is none),
\* and when the read succeeds it returns the rows as they were received:
\* the same elements in the same order, none dropped.
C15_LimitAndRowsPassThrough ==
    [][\A t \in Tops :
          /\ \A arg \in LimitArgs :
                TopStart(t, arg) /\ tops'[t].pc # "rejected" =>
                    /\ tops'[t].pc = "read"
                    /\ tops'[t].log = <<"read">>
                    /\ tops'[t].limit = IF arg.given THEN arg.n ELSE 50
          /\ \A r \in ReadResponses :
                TopResponse(t, r) =>
                    /\ Count(tops'[t].log, "read") = 1
                    /\ tops'[t].limit = tops[t].limit
                    /\ r.kind = "ok" =>
                          /\ tops'[t].pc = "resolved"
                          /\ tops'[t].topScores = r.rows]_vars

C15_Witness ==
    \E t \in Tops :
        /\ tops[t].pc = "resolved"
        /\ tops[t].limit = 2
        /\ tops[t].log = <<"read", "read:ok">>
        /\ tops[t].topScores = <<3, 9, 3>>

(***************************************************************************)
(* The life of the configuration (checked under Spec).                     *)
(***************************************************************************)
\* The deferred check has run and has left the layer without its URL or key.
Degraded == timer = "fired" /\ ConfigMissing(<<SUPABASE_URL, SUPABASE_KEY>>)

\* C16: once the deferred check has run without finding the configuration,
\* the layer stays degraded for good: SUPABASE_URL or SUPABASE_KEY stays
\* empty and every getTopScores or submitScore call that starts is rejected
\* with the configuration error, whatever SUPABASE_CONFIG has become since.
C16_DegradedModeIsPermanent ==
    [][Degraded =>
          /\ Degraded'
          /\ \A t \in Tops :
                tops[t].pc = "idle" /\ tops'[t].pc # "idle"
                    => tops'[t].pc = "rejected" /\ tops'[t].err = "config"
          /\ \A c \in Subs :
                subs[c].pc = "idle" /\ subs'[c].pc # "idle"
                    => subs'[c].pc = "rejected" /\ subs'[c].err = "config"]_vars

ConfigSet == SUPABASE_URL # "" /\ SUPABASE_KEY # ""

\* A step in which initSupabaseConfig runs and executes its two assignments:
\* the timer callback, or the head of a call that finds the URL or the key
\* empty, with SUPABASE_CONFIG defined and truthy.
AssignsConfig ==
    /\ SUPABASE_CONFIG.state \notin {"undefined", "null"}
    /\ \/ TimerFires
       \/ /\ ConfigMissing(<<SUPABASE_URL, SUPABASE_KEY>>)
          /\ \/ \E t \in Tops, arg \in LimitArgs : TopStart(t, arg)
             \/ \E c \in Subs, u \in Usernames, sc \in Scores :
                   SubmitStart(c, u, sc, NoExtraArgs)

\* C17: once SUPABASE_URL and SUPABASE_KEY are both non-empty, no step
\* assigns them again and their values stay as they are.
C17_ConfigWrittenAtMostOnce ==
    [][ConfigSet =>
          /\ ~AssignsConfig
          /\ SUPABASE_URL' = SUPABASE_URL
          /\ SUPABASE_KEY' = SUPABASE_KEY]_vars

\* What holds of the code in place of C17, as long as the page does not
\* change SUPABASE_CONFIG once it is defined: the values stay as they are
\* (the timer assigns the same values again).
ConfigValuesNeverChange ==
    [][ConfigSet => SUPABASE_URL' = SUPABASE_URL /\ SUPABASE_KEY' = SUPABASE_KEY]_vars

(***************************************************************************)
(* No request is sent twice (checked under Spec).                          *)
(***************************************************************************)
\* The last entry of a log; "" for the empty log.
LastOf(log) == IF log = << >> THEN "" ELSE log[Len(log)]

\* C18: no request is retried: a getTopScores call issues at most one read,
\* a submitScore call at most one write and at most one read, getClientIP
\* contacts each provider at most once, and a write or a read that failed
\* is the last thing the call did: the call has rejected.
C18_NoRequestIsRetried ==
    /\ \A t \in Tops :
          /\ Count(tops[t].log, "read") <= 1
          /\ "read:fail" \in Requests(tops[t]) =>
                /\ tops[t].pc = "rejected"
                /\ LastOf(tops[t].log) = "read:fail"
    /\ \A c \in Subs :
          /\ Count(subs[c].log, "write") <= 1
          /\ Count(subs[c].log, "read") <= 1
          /\ \A k \in 1..Len(services) : Count(subs[c].log, services[k]) <= 1
          /\ "write:fail" \in Requests(subs[c]) =>
                /\ subs[c].pc = "rejected"
                /\ LastOf(subs[c].log) = "write:fail"
          /\ "read:fail" \in Requests(subs[c]) =>
                /\ subs[c].pc = "rejected"
                /\ LastOf(subs[c].log) = "read:fail"

\* Every provider was asked and the write failed; a read failed.
C18_Witness ==
    /\ \E c \in Subs :
          /\ subs[c].pc = "rejected"
          /\ subs[c].log = <<"ipify", "ipify64", "ipapi", "myip", "write", "write:fail">>
    /\ \E t \in Tops :
          /\ tops[t].pc = "rejected"
          /\ tops[t].log = <<"read", "read:fail">>

(***************************************************************************)
(* Two calls of submitScore in flight together (checked under PairSpec).   *)
(***************************************************************************)
\* The step that takes the answer call c is waiting for.
TakesAnswer(c) ==
    \/ \E r \in ProviderResponses : SubmitProviderResponse(c, r)
    \/ \E r \in WriteResponses : SubmitWriteResponse(c, r)
    \/ \E r \in ReadResponses : SubmitReadResponse(c, r)

\* What each call has done, whatever the other has: a valid call is past its
\* validation, has issued its write once when the lookup is over, with its
\* own username and score; a call that waits for an answer can take it.
EachCallOnItsOwn ==
    \A c \in PairCalls :
        LET call == subs[c]
        IN  /\ Started(call) /\ ~FailsValidation(call) =>
                  /\ call.pc = "ip" \/ Count(call.log, "write") = 1
                  /\ call.pc = "ip" => "write" \notin Requests(call)
            /\ "write" \in Requests(call) =>
                  /\ IsTrimOf(call.body.username, call.username)
                  /\ call.body.score.t = "number"
                  /\ IsFloorOf(call.body.score.tenths, call.score.tenths)
            /\ call.pc \in {"ip", "write", "read"} => ENABLED TakesAnswer(c)

\* C19: two submitScore calls in flight together go on independently under
\* every interleaving of their answers: each valid call issues its own write
\* once with its own payload, a call that waits for an answer can take it
\* whatever the state of the other, and a step of one call leaves the
\* arguments, the payload, the requests and the result of the other as they
\* are.
C19_ConcurrentSubmitsIndependent ==
    /\ []EachCallOnItsOwn
    /\ [][\A c \in PairCalls, d \in PairCalls :
             c # d /\ subs'[c] # subs[c] => subs'[d] = subs[d]]_vars

\* One call has failed at its write while the other, started before that and
\* answered after it, has resolved; the payloads differ.
C19_Witness ==
    /\ subs[1].pc = "rejected" /\ subs[1].err = "write"
    /\ subs[2].pc = "resolved"
    /\ subs[1].body.username = <<"B", "o", "b">>
    /\ subs[1].body.score.tenths = 420
    /\ subs[2].body.username = trim(NamePadded20)
    /\ subs[2].body.score.tenths = 70

(***************************************************************************)
(* Overlapping calls of loadProfanityWords (checked under LoadSpec).       *)
(***************************************************************************)
\* C20: under every interleaving of loadProfanityWords calls, while
\* profanityLoaded is true PROFANITY_WORDS is the list parsed from a fetch
\* that succeeded: a step either leaves the list as it is or is the end of a
\* load whose fetch succeeded, which sets it to the list parsed from that
\* fetch; no step empties it.
C20_WordlistKeptOnceLoaded ==
    [][profanityLoaded' =>
          \/ PROFANITY_WORDS' = PROFANITY_WORDS
          \/ \E l \in Loads, r \in WordlistResponses :
                /\ r.kind = "ok"
                /\ LoadResponse(l, r)
                /\ PROFANITY_WORDS' = ParseWordlist(r.text)]_vars

(***************************************************************************)
(* The score that is sent (checked under Spec).                            *)
(***************************************************************************)
\* C21: every write that submitScore has issued carries a score that is a
\* non-negative integer, and a call whose score is not a number, is negative
\* or is not finite (NaN) has been rejected with the invalid-score error
\* unless an earlier check rejected it, without any request.
C21_WrittenScoreIsNonNegativeInteger ==
    \A c \in Subs :
        LET call == subs[c]
        IN  /\ "write" \in Requests(call) =>
                  /\ call.body.score.t = "number"
                  /\ call.body.score.tenths >= 0
                  /\ call.body.score.tenths % 10 = 0
            /\ Started(call) /\ (ScoreInvalid(call) \/ call.score.num # "finite") =>
                  /\ call.pc = "rejected"
                  /\ call.log = << >>

\* What holds of the code in place of C21: the same statement for the
\* scores that are finite numbers.
FiniteWrittenScoreIsNonNegativeInteger ==
    \A c \in Subs :
        LET call == subs[c]
        IN  /\ "write" \in Requests(call) /\ call.score.num = "finite" =>
                  /\ call.body.score.t = "number"
                  /\ call.body.score.tenths >= 0
                  /\ call.body.score.tenths % 10 = 0
            /\ Started(call) /\ ScoreInvalid(call) =>
                  /\ call.pc = "rejected"
                  /\ call.log = << >>

(***************************************************************************)
(* A write that was applied and a call that rejects (checked under Spec).  *)
(***************************************************************************)
\* C22: submitScore resolves only when the write and the read that follows
\* have both succeeded; when the write has succeeded and the read has
\* failed, the call has rejected with the error of the read and returns
\* nothing, although the remote has inserted the row.
C22_RejectsThoughWriteApplied ==
    \A c \in Subs :
        LET call == subs[c]
        IN  /\ call.pc = "resolved" =>
                  /\ "write:ok" \in Requests(call)
                  /\ LastOf(call.log) = "read:ok"
                  /\ call.inserted
            /\ "write:ok" \in Requests(call) /\ "read:fail" \in Requests(call) =>
                  /\ call.pc = "rejected"
                  /\ call.topScores = << >>
                  /\ \/ call.err = "read" /\ call.msg = "Failed to fetch scores: 500"
                     \/ call.err = "network"

C22_Witness ==
    \E c \in Subs :
        /\ subs[c].pc = "rejected"
        /\ subs[c].err = "read"
        /\ "write:ok" \in Requests(subs[c])
        /\ LastOf(subs[c].log) = "read:fail"

(***************************************************************************)
(* The message of a refused write (checked under Spec).                    *)
(***************************************************************************)
\* C23: when the write is answered with a status that is not a success,
\* submitScore rejects with a message that is not empty: the message field
\* of the body when the body is JSON with a message, "Failed to submit
\* score: <status>" when it is JSON without a message, the text of the body
\* when it is not JSON.
C23_RefusedWriteHasDescriptiveMessage ==
    [][\A c \in Subs, r \in WriteResponses :
          r.kind = "notok" /\ SubmitWriteResponse(c, r) =>
              /\ subs'[c].pc = "rejected"
              /\ subs'[c].msg # ""
              /\ r.body.parses /\ r.body.message # "" => subs'[c].msg = r.body.message
              /\ r.body.parses /\ r.body.message = "" =>
                    subs'[c].msg = "Failed to submit score: 500"
              /\ ~r.body.parses => subs'[c].msg = r.body.text]_vars

\* What holds of the code in place of C23: the same three cases, the message
\* being empty when the body is.
RefusedWriteMessageFollowsBody ==
    [][\A c \in Subs, r \in WriteResponses :
          r.kind = "notok" /\ SubmitWriteResponse(c, r) =>
              /\ subs'[c].pc = "rejected"
              /\ r.body.parses /\ r.body.message # "" => subs'[c].msg = r.body.message
              /\ r.body.parses /\ r.body.message = "" =>
                    subs'[c].msg = "Failed to submit score: 500"
              /\ ~r.body.parses => subs'[c].msg = r.body.text]_vars

(***************************************************************************)
(* Short entries under the word-boundary policy (checked under FilterSpec).*)
(***************************************************************************)
\* C24: under the word-boundary policy an entry shorter than three
\* characters flags a candidate only by being equal to the whole trimmed,
\* lower-cased candidate: every flagged candidate equals an entry or holds
\* an entry of three characters or more.
C24_ShortEntryFlagsOnlyByEquality ==
    version # "v1" /\ probe.done /\ probe.flagged
        => \E k \in 1..Len(PROFANITY_WORDS) :
              \/ toLowerCase(trim(probe.cand)) = PROFANITY_WORDS[k]
              \/ /\ Len(PROFANITY_WORDS[k]) >= 3
                 /\ Occurrences(PROFANITY_WORDS[k], probe.cand) # {}

\* "a as" under the list ["as"]: the entry stands as a separate word and the
\* candidate is not flagged.
C24_Witness ==
    /\ version # "v1"
    /\ PROFANITY_WORDS = << <<"a", "s">> >>
    /\ probe.cand = <<"a", " ", "a", "s">>
    /\ probe.done
    /\ ~probe.flagged

(***************************************************************************)
(* What a flag rests on under the normalized-substring policy (checked     *)
(* under FilterSpec).                                                      *)
(***************************************************************************)
\* The letters a-z of an entry, in lower case.
LettersOf(word) == SelectSeq(toLowerCase(word), IsAsciiLower)

\* C25: under the normalized-substring policy a candidate is flagged only
\* if, for some entry, the letters of the entry are not empty and occur in
\* the normalized candidate, or the lower-cased entry occurs in the
\* lower-cased candidate; so no wordlist flags every username.
C25_FlagRestsOnAnEntry ==
    version = "v1" /\ probe.done /\ probe.flagged
        => \E k \in 1..Len(PROFANITY_WORDS) :
              LET word == PROFANITY_WORDS[k]
                  lower == toLowerCase(probe.cand)
              IN  \/ /\ LettersOf(word) # << >>
                     /\ includes(normalizeUsername(lower), LettersOf(word))
                  \/ includes(lower, toLowerCase(word))

\* What holds of the code in place of C25: the same statement for the lists
\* whose entries all have a letter.
FlagRestsOnAnEntryWithLetters ==
    /\ version = "v1" /\ probe.done /\ probe.flagged
    /\ \A k \in 1..Len(PROFANITY_WORDS) : LettersOf(PROFANITY_WORDS[k]) # << >>
    => \E k \in 1..Len(PROFANITY_WORDS) :
          \/ includes(normalizeUsername(toLowerCase(probe.cand)),
                      LettersOf(PROFANITY_WORDS[k]))
          \/ includes(toLowerCase(probe.cand), toLowerCase(PROFANITY_WORDS[k]))

(***************************************************************************)
(* Termination (checked under LiveSpec).                                   *)
(***************************************************************************)
Awaiting(call) == call.pc \in {"ip", "write", "read"}
Settled(call) == call.pc \in {"resolved", "rejected"}

\* C26: when every request that is issued is answered or fails in the end,
\* every submitScore call settles and every getClientIP call returns (the
\* call leaves its lookup); and a call that waits changes only by taking the
\* answer to its request: nothing else, no timeout, moves it on.
C26_SettlesWhenAnswered ==
    /\ \A c \in Subs : Awaiting(subs[c]) ~> Settled(subs[c])
    /\ \A c \in Subs : (subs[c].pc = "ip") ~> (subs[c].pc # "ip")
    /\ [][\A c \in Subs :
             Awaiting(subs[c]) /\ subs'[c] # subs[c] => TakesAnswer(c)]_vars

\* A call that went through the four providers, the write and the read.
C26_Witness ==
    \E c \in Subs :
        /\ subs[c].pc = "resolved"
        /\ subs[c].log = <<"ipify", "ipify64", "ipapi", "myip",
                           "write", "write:ok", "read", "read:ok">>

====
